---------------------------- MODULE Spec2Model ----------------------------
(***************************************************************************)
(* A model of src/app.py: the FastAPI service "AI Pakar Keuangan &         *)
(* Investasi" that glues a news-search provider (NewsAPI) to a generation  *)
(* provider (Gemini).                                                      *)
(*                                                                         *)
(* Encoding of Python values                                               *)
(*   Optional value   None is {} and a value v is {v}                      *)
(*   str              a sequence of non-empty tokens; "" is <<>>.  A token *)
(*                    is one character where the code looks at characters  *)
(*                    (split, strip) and otherwise a literal of the source *)
(*                    or an opaque piece of input text                     *)
(*   dict             a function from the keys that are present            *)
(*   list             a sequence                                           *)
(* Characters outside ASCII are spelled in ASCII: U+2022 (bullet) is the   *)
(* token "U+2022", U+2014 (em dash) is written "--" and U+2013 "-".        *)
(***************************************************************************)
EXTENDS Integers, Sequences, FiniteSets, TLC

VARIABLES
    pc,        \* per request: "idle", "news_wait", "gen_wait" or "done"
    inbox,     \* per request: the endpoint called and the raw request body
    q,         \* analyze: the local q (news query string)
    res,       \* analyze, news: the local res (the news provider's response)
    articles,  \* analyze: the local articles (normalized records)
    gen,       \* analyze, suggest_questions: what model.generate_content did
    newsLog,   \* per request: the arguments of each newsapi.get_everything call
    genLog,    \* per request: the argument of each model.generate_content call
    resp,      \* per request: the HTTP response sent
    fargs,     \* function under test: its arguments
    fret,      \* function under test: its return value
    fdone      \* function under test: whether it has returned

vars == <<pc, inbox, q, res, articles, gen, newsLog, genLog, resp, fargs, fret, fdone>>

svcVars == <<pc, inbox, q, res, articles, gen, newsLog, genLog, resp>>

fnVars == <<fargs, fret, fdone>>

-----------------------------------------------------------------------------
(* Bounds of the model *)

NumReqs == 2

MaxTickers == 2

MaxArticles == 2

MaxLen == 4

-----------------------------------------------------------------------------
(* Python values *)

None == {}

Some(v) == {v}

Val(o) == CHOOSE v \in o : TRUE

EmptyDict == [k \in {} |-> None]

\* dict.get(k, default)
Get(d, k, default) == IF k \in DOMAIN d THEN d[k] ELSE default

\* x or alt, for an Optional[str] x
OrElse(o, alt) == IF o = None \/ Val(o) = <<>> THEN alt ELSE Val(o)

\* bool(x), for an Optional[str] or an Optional[List[str]] x
Truthy(o) == o # None /\ Val(o) # <<>>

\* an Optional[str] inside an f-string
Fmt(o) == IF o = None THEN <<"None">> ELSE Val(o)

RECURSIVE Join(_, _)
\* sep.join(xs)
Join(sep, xs) ==
    IF xs = <<>> THEN <<>>
    ELSE IF Len(xs) = 1 THEN xs[1]
    ELSE xs[1] \o sep \o Join(sep, Tail(xs))

\* the sequences over S of length at most n
SeqUpTo(S, n) == UNION {[1..k -> S] : k \in 0..n}

-----------------------------------------------------------------------------
(* Request schemas, validated by FastAPI before the handler runs *)

HariDefault == 7

HariMin == 1

HariMax == 30

HorizonMin == 1

HalamanDefault == 1

HalamanMin == 1

HalamanMax == 5

\* a field declared with a plain type (str, int): present and not null
Required(b, k) == k \in DOMAIN b /\ b[k] # None

\* a field declared with a default and a plain type: absent, or not null
Defaulted(b, k) == k \in DOMAIN b => b[k] # None

\* class InvestorProfile: horizon_bulan has ge=1, every field is Optional
ValidProfile(p) ==
    LET h == Get(p, "horizon_bulan", None)
    IN  h # None => Val(h) >= HorizonMin

InvestorProfile(p) ==
    [risiko        |-> Get(p, "risiko", None),
     horizon_bulan |-> Get(p, "horizon_bulan", None),
     fokus         |-> Get(p, "fokus", None)]

HariInRangeLoose(b) ==
    "hari_kebelakang" \in DOMAIN b => Val(b["hari_kebelakang"]) >= HariMin

\* hari_kebelakang: int = Field(default=7, ge=1, le=30)
HariInRange(b) ==
    "hari_kebelakang" \in DOMAIN b =>
        /\ Val(b["hari_kebelakang"]) >= HariMin
        /\ Val(b["hari_kebelakang"]) <= HariMax

PertanyaanNonEmpty(b) == Required(b, "pertanyaan") /\ Val(b["pertanyaan"]) # <<>>

\* pertanyaan: str = Field(...)
PertanyaanOk(b) == Required(b, "pertanyaan")

\* class AnalyzeRequest: whether the body passes validation
ValidAnalyze(b) ==
    /\ PertanyaanOk(b)
    /\ Defaulted(b, "hari_kebelakang")
    /\ HariInRange(b)
    /\ Defaulted(b, "bahasa")
    /\ Get(b, "profil", None) # None => ValidProfile(Val(b["profil"]))

\* class AnalyzeRequest: the request object of a valid body
AnalyzeRequest(b) ==
    [pertanyaan      |-> Val(b["pertanyaan"]),
     tickers         |-> Get(b, "tickers", None),
     kata_kunci      |-> Get(b, "kata_kunci", None),
     hari_kebelakang |-> Val(Get(b, "hari_kebelakang", Some(HariDefault))),
     bahasa          |-> Val(Get(b, "bahasa", Some(<<"id">>))),
     profil          |-> IF Get(b, "profil", None) = None THEN None
                         ELSE Some(InvestorProfile(Val(b["profil"])))]

HalamanInRangeLoose(b) ==
    "halaman" \in DOMAIN b => Val(b["halaman"]) >= HalamanMin

\* halaman: int = Field(default=1, ge=1, le=5)
HalamanInRange(b) ==
    "halaman" \in DOMAIN b =>
        /\ Val(b["halaman"]) >= HalamanMin
        /\ Val(b["halaman"]) <= HalamanMax

\* class NewsQuery: whether the body passes validation
ValidNewsQuery(b) ==
    /\ Required(b, "q")
    /\ Defaulted(b, "bahasa")
    /\ Defaulted(b, "halaman")
    /\ HalamanInRange(b)

\* class NewsQuery: the request object of a valid body
NewsQuery(b) ==
    [q       |-> Val(b["q"]),
     dari    |-> Get(b, "dari", None),
     sampai  |-> Get(b, "sampai", None),
     bahasa  |-> Val(Get(b, "bahasa", Some(<<"id">>))),
     halaman |-> Val(Get(b, "halaman", Some(HalamanDefault)))]

\* the 422 response FastAPI sends for a body that fails validation
ValidationError ==
    [status |-> 422, detail |-> <<"validation error">>, body |-> EmptyDict]

-----------------------------------------------------------------------------
(* Utilities *)

\* Dates are counted in days from the day of the request: dt.date.today()
\* is 0 and today - dt.timedelta(days=n) is -n.  _fmt_date gives the
\* %Y-%m-%d text of such a day.
_fmt_date(d) == <<"date", ToString(d)>>

PageSizeAnalyze == 8

PageSizeNews == 20

\* fetch_news: the arguments of its newsapi.get_everything call
FetchNewsCall(query, language, from_days, page_size) ==
    [q          |-> query,
     language   |-> language,
     from_param |-> Some(_fmt_date(0 - from_days)),
     to         |-> Some(_fmt_date(0)),
     sort_by    |-> <<"publishedAt">>,
     page       |-> 1,
     page_size  |-> page_size]

StatusOkOrMissing(r) == Get(r, "status", None) \in {None, Some(<<"ok">>)}

\* res.get("status") != "ok", negated
StatusOk(r) == Get(r, "status", None) = Some(<<"ok">>)

\* the HTTPException(status_code=502, ...) of fetch_news and news
BadGateway(reprOfRes) ==
    [status |-> 502,
     detail |-> <<"Gagal memuat berita: ">> \o reprOfRes,
     body   |-> EmptyDict]

\* what the server sends when the handler raises something else than an
\* HTTPException
InternalServerError ==
    [status |-> 500, detail |-> <<"Internal Server Error">>, body |-> EmptyDict]

\* res.get("articles", [])
ProviderArticles(r) == Get(r, "articles", Some(<<>>))

\* a.get("source", {}).get("name") raises AttributeError when a["source"]
\* is None; iterating over None raises TypeError
NormalizeRaises(r) ==
    \/ ProviderArticles(r) = None
    \/ \E i \in 1..Len(Val(ProviderArticles(r))) :
          Get(Val(ProviderArticles(r))[i], "source", Some(EmptyDict)) = None

\* one normalized article: the dict display of fetch_news and of news
NormalizeArticle(a) ==
    [judul       |-> Get(a, "title", None),
     sumber      |-> Get(Val(Get(a, "source", Some(EmptyDict))), "name", None),
     url         |-> Get(a, "url", None),
     publishedAt |-> Get(a, "publishedAt", None),
     ringkas     |-> Get(a, "description", None)]

\* the list comprehension over the articles, when it does not raise
Normalize(r) ==
    [i \in 1..Len(Val(ProviderArticles(r))) |->
        NormalizeArticle(Val(ProviderArticles(r))[i])]

-----------------------------------------------------------------------------
(* str(res) inside the f-string of the 502 detail: the dict's repr, keys in *)
(* the order the provider sends them                                       *)

ReprStr(o) == IF o = None THEN <<"None">> ELSE <<"'">> \o Val(o) \o <<"'">>

ReprInt(o) == IF o = None THEN <<"None">> ELSE <<ToString(Val(o))>>

ReprDict(d, keys, V(_)) ==
    LET present == SelectSeq(keys, LAMBDA k : k \in DOMAIN d)
        items   == [i \in 1..Len(present) |->
                       <<"'", present[i], "': ">> \o V(present[i])]
    IN  <<"{">> \o Join(<<", ">>, items) \o <<"}">>

ReprList(xs, V(_)) ==
    <<"[">> \o Join(<<", ">>, [i \in 1..Len(xs) |-> V(xs[i])]) \o <<"]">>

ReprSource(o) ==
    IF o = None THEN <<"None">>
    ELSE ReprDict(Val(o), <<"name">>, LAMBDA k : ReprStr(Val(o)[k]))

ReprArticle(a) ==
    ReprDict(a, <<"source", "title", "description", "url", "publishedAt">>,
             LAMBDA k : IF k = "source" THEN ReprSource(a[k]) ELSE ReprStr(a[k]))

ReprArticles(o) ==
    IF o = None THEN <<"None">> ELSE ReprList(Val(o), ReprArticle)

ReprRes(r) ==
    ReprDict(r, <<"status", "code", "message", "totalResults", "articles">>,
             LAMBDA k : IF k = "articles" THEN ReprArticles(r[k])
                        ELSE IF k = "totalResults" THEN ReprInt(r[k])
                        ELSE ReprStr(r[k]))

-----------------------------------------------------------------------------
(* build_news_context *)

NoArticles ==
    <<"Tidak ada artikel relevan yang ditemukan dalam jangka waktu yang ditentukan.">>

ContextHeader == <<"Artikel Berita Terkait (ringkasan singkat):">>

\* the f-string appended for the i-th article a
ContextEntry(i, a) ==
    <<ToString(i), ". [">> \o Fmt(a["judul"]) \o <<"](">> \o Fmt(a["url"])
        \o <<") -- ">> \o Fmt(a["sumber"])
        \o <<" -- ">> \o Fmt(Get(a, "publishedAt", Some(<<>>)))
        \o <<"\n", "   Ringkas: ">> \o OrElse(Get(a, "ringkas", None), <<"-">>)

build_news_context_from_zero(arts) ==
    IF arts = <<>> THEN NoArticles
    ELSE Join(<<"\n">>,
              <<ContextHeader>> \o [i \in 1..Len(arts) |-> ContextEntry(i - 1, arts[i])])

build_news_context(arts) ==
    IF arts = <<>> THEN NoArticles
    ELSE Join(<<"\n">>,
              <<ContextHeader>> \o [i \in 1..Len(arts) |-> ContextEntry(i, arts[i])])

-----------------------------------------------------------------------------
(* build_prompt *)

ProfileText(p) ==
    <<"Profil Investor:\n", "- Risiko: ">> \o OrElse(p.risiko, <<"-">>)
        \o <<"\n", "- Horizon (bulan): ">>
        \o (IF p.horizon_bulan = None \/ Val(p.horizon_bulan) = 0
            THEN <<"-">> ELSE <<ToString(Val(p.horizon_bulan))>>)
        \o <<"\n", "- Fokus: ">> \o OrElse(p.fokus, <<"-">>) \o <<"\n">>

Instructions ==
    <<"Tugas:\n",
      "- Jawab pertanyaan pengguna di bawah ini.\n",
      "- Gunakan konteks berita di atas jika relevan.\n",
      "- Sertakan langkah analisis ringkas, poin risiko, dan opsi alternatif.\n",
      "- Akhiri dengan ringkasan eksekutif (3-5 poin bullet).\n",
      "- Tambahkan penafian singkat bahwa ini bukan nasihat keuangan personal.\n">>

Part(text) == [text |-> text]

build_prompt_question_first(user_q, profile, news_ctx) ==
    <<Part(<<"Pertanyaan Pengguna: ">> \o user_q)>>
        \o (IF profile # None THEN <<Part(ProfileText(Val(profile)))>> ELSE <<>>)
        \o <<Part(news_ctx), Part(Instructions)>>

\* a pydantic model instance is always truthy: "if profile" tests for None
build_prompt(user_q, profile, news_ctx) ==
    (IF profile # None THEN <<Part(ProfileText(Val(profile)))>> ELSE <<>>)
        \o <<Part(news_ctx), Part(Instructions),
             Part(<<"Pertanyaan Pengguna: ">> \o user_q)>>

-----------------------------------------------------------------------------
(* analyze: the news query *)

FallbackTerms == <<<<"ekonomi OR pasar saham OR IHSG">>>>

QueryTermsTickersFirst(req) ==
    LET terms == (IF Truthy(req.tickers) THEN Val(req.tickers) ELSE <<>>)
                 \o (IF Truthy(req.kata_kunci) THEN <<Val(req.kata_kunci)>> ELSE <<>>)
    IN  IF terms = <<>> THEN FallbackTerms ELSE terms

\* the list terms, lines 171-178
QueryTerms(req) ==
    LET terms == (IF Truthy(req.kata_kunci) THEN <<Val(req.kata_kunci)>> ELSE <<>>)
                 \o (IF Truthy(req.tickers) THEN Val(req.tickers) ELSE <<>>)
    IN  IF terms = <<>> THEN FallbackTerms ELSE terms

\* q = " OR ".join(terms)
NewsQueryString(req) == Join(<<" OR ">>, QueryTerms(req))

-----------------------------------------------------------------------------
(* suggest_questions: the prompt and the list of suggestions *)

SuggestPrompt(topik) ==
    <<"Buat 8 pertanyaan tajam seputar keuangan/investasi untuk membantu analisis. ",
      "Variasikan dari makro, sektor, emiten, manajemen risiko, dan perencanaan keuangan. ">>
        \o (IF Truthy(topik) THEN <<"Fokus utama: ">> \o Val(topik) \o <<". ">>
            ELSE <<>>)

Bullet == "U+2022"

\* the characters str.strip() removes (those the model's alphabet can hold)
Whitespace == {" ", "\n", "\t", "\r", "\f"}

\* the characters of the argument of s.strip("- •\n ")
BulletChars == {"-", " ", Bullet, "\n"}

RECURSIVE Split(_, _)
\* s.split(sep) for a one-character sep
Split(s, sep) ==
    IF \A i \in 1..Len(s) : s[i] # sep THEN <<s>>
    ELSE LET i == CHOOSE j \in 1..Len(s) :
                      s[j] = sep /\ \A k \in 1..(j - 1) : s[k] # sep
         IN  <<SubSeq(s, 1, i - 1)>> \o Split(SubSeq(s, i + 1, Len(s)), sep)

RECURSIVE LStrip(_, _)
LStrip(s, chars) ==
    IF s # <<>> /\ s[1] \in chars THEN LStrip(Tail(s), chars) ELSE s

RECURSIVE RStrip(_, _)
RStrip(s, chars) ==
    IF s # <<>> /\ s[Len(s)] \in chars THEN RStrip(SubSeq(s, 1, Len(s) - 1), chars)
    ELSE s

\* s.strip(chars)
Strip(s, chars) == RStrip(LStrip(s, chars), chars)

MapSeq(xs, F(_)) == [i \in 1..Len(xs) |-> F(xs[i])]

\* [s.strip("- •\n ") for s in teks.split("\n") if s.strip()]
Suggestions(teks) ==
    MapSeq(SelectSeq(Split(teks, "\n"), LAMBDA s : Strip(s, Whitespace) # <<>>),
           LAMBDA s : Strip(s, BulletChars))

GenerationFailedNoMessage(e) ==
    [status |-> 500, detail |-> <<"Gagal memanggil Gemini">>, body |-> EmptyDict]

\* the HTTPException(status_code=500, ...) of analyze and suggest_questions
GenerationFailed(e) ==
    [status |-> 500,
     detail |-> <<"Gagal memanggil Gemini: ">> \o e,
     body   |-> EmptyDict]

-----------------------------------------------------------------------------
(* The state after start-up: both keys are set, no request has arrived *)

Reqs == 1..NumReqs

NoRequest == [endpoint |-> "none", body |-> EmptyDict]

NoGen == [kind |-> "none", text |-> <<>>]

NoResponse == [status |-> 0, detail |-> <<>>, body |-> EmptyDict]

SvcInit ==
    /\ pc = [r \in Reqs |-> "idle"]
    /\ inbox = [r \in Reqs |-> NoRequest]
    /\ q = [r \in Reqs |-> <<>>]
    /\ res = [r \in Reqs |-> EmptyDict]
    /\ articles = [r \in Reqs |-> <<>>]
    /\ gen = [r \in Reqs |-> NoGen]
    /\ newsLog = [r \in Reqs |-> <<>>]
    /\ genLog = [r \in Reqs |-> <<>>]
    /\ resp = [r \in Reqs |-> NoResponse]

FnIdle == fargs = <<>> /\ fret = <<>> /\ fdone = FALSE

Init == SvcInit /\ FnIdle

\* the handler of request r ends with response x
Respond(r, x) ==
    /\ resp' = [resp EXCEPT ![r] = x]
    /\ pc' = [pc EXCEPT ![r] = "done"]

-----------------------------------------------------------------------------
(* GET / *)

RootBody ==
    [name       |-> <<"AI Pakar Keuangan & Investasi">>,
     model      |-> <<"gemini-1.5-flash">>,
     endpoints  |-> <<<<"/analyze">>, <<"/news">>, <<"/suggest-questions">>>>,
     disclaimer |-> <<"Informasi bersifat edukatif, bukan nasihat keuangan personal.">>]

Root(r) ==
    /\ pc[r] = "idle"
    /\ inbox' = [inbox EXCEPT ![r] = [endpoint |-> "root", body |-> EmptyDict]]
    /\ Respond(r, [status |-> 200, detail |-> <<>>, body |-> RootBody])
    /\ UNCHANGED <<q, res, articles, gen, newsLog, genLog, fnVars>>

-----------------------------------------------------------------------------
(* POST /analyze *)

AnalyzeDisclaimer ==
    <<"Konten untuk tujuan edukasi. Lakukan riset mandiri & konsultasi penasihat berizin.">>

AnalyzeBodyPageSize(req, query, arts, teks) ==
    [query          |-> req.pertanyaan,
     news_query     |-> query,
     articles_count |-> PageSizeAnalyze,
     answer         |-> teks,
     disclaimer     |-> AnalyzeDisclaimer]

\* the dict analyze returns
AnalyzeBody(req, query, arts, teks) ==
    [query          |-> req.pertanyaan,
     news_query     |-> query,
     articles_count |-> Len(arts),
     answer         |-> teks,
     disclaimer     |-> AnalyzeDisclaimer]

\* The request arrives with body b.  FastAPI validates it against
\* AnalyzeRequest; the handler then builds q and calls fetch_news, which
\* calls the news provider.
AnalyzeReceive(r, b) ==
    /\ pc[r] = "idle"
    /\ inbox' = [inbox EXCEPT ![r] = [endpoint |-> "analyze", body |-> b]]
    /\ IF ~ValidAnalyze(b)
       THEN /\ Respond(r, ValidationError)
            /\ UNCHANGED <<q, newsLog>>
       ELSE LET req == AnalyzeRequest(b)
            IN  /\ q' = [q EXCEPT ![r] = NewsQueryString(req)]
                /\ newsLog' = [newsLog EXCEPT ![r] =
                       Append(@, FetchNewsCall(NewsQueryString(req), req.bahasa,
                                               req.hari_kebelakang, PageSizeAnalyze))]
                /\ pc' = [pc EXCEPT ![r] = "news_wait"]
                /\ UNCHANGED resp
    /\ UNCHANGED <<res, articles, gen, genLog, fnVars>>

\* The news provider answers x.  fetch_news checks the status and normalizes
\* the articles; the handler builds the context and the prompt and calls the
\* generation provider.
AnalyzeNewsReturned(r, x) ==
    /\ pc[r] = "news_wait"
    /\ inbox[r].endpoint = "analyze"
    /\ res' = [res EXCEPT ![r] = x]
    /\ IF ~StatusOk(x)
       THEN /\ Respond(r, BadGateway(ReprRes(x)))
            /\ UNCHANGED <<articles, genLog>>
       ELSE IF NormalizeRaises(x)
       THEN /\ Respond(r, InternalServerError)
            /\ UNCHANGED <<articles, genLog>>
       ELSE LET req == AnalyzeRequest(inbox[r].body)
            IN  /\ articles' = [articles EXCEPT ![r] = Normalize(x)]
                /\ genLog' = [genLog EXCEPT ![r] =
                       Append(@, build_prompt(req.pertanyaan, req.profil,
                                              build_news_context(Normalize(x))))]
                /\ pc' = [pc EXCEPT ![r] = "gen_wait"]
                /\ UNCHANGED resp
    /\ UNCHANGED <<inbox, q, gen, newsLog, fnVars>>

\* model.generate_content returns or raises, and resp.text is read or raises
AnalyzeGenReturned(r, g) ==
    /\ pc[r] = "gen_wait"
    /\ inbox[r].endpoint = "analyze"
    /\ gen' = [gen EXCEPT ![r] = g]
    /\ IF g.kind = "text"
       THEN Respond(r, [status |-> 200, detail |-> <<>>,
                        body |-> AnalyzeBody(AnalyzeRequest(inbox[r].body),
                                             q[r], articles[r], g.text)])
       ELSE Respond(r, GenerationFailed(g.text))
    /\ UNCHANGED <<inbox, q, res, articles, newsLog, genLog, fnVars>>

-----------------------------------------------------------------------------
(* POST /news *)

\* params, lines 209-220
NewsParams(query) ==
    [q         |-> query.q,
     language  |-> query.bahasa,
     sort_by   |-> <<"publishedAt">>,
     page      |-> query.halaman,
     page_size |-> PageSizeNews]
    @@ (IF Truthy(query.dari) THEN [from_param |-> query.dari] ELSE EmptyDict)
    @@ (IF Truthy(query.sampai) THEN [to |-> query.sampai] ELSE EmptyDict)

NewsReceive(r, b) ==
    /\ pc[r] = "idle"
    /\ inbox' = [inbox EXCEPT ![r] = [endpoint |-> "news", body |-> b]]
    /\ IF ~ValidNewsQuery(b)
       THEN /\ Respond(r, ValidationError)
            /\ UNCHANGED newsLog
       ELSE /\ newsLog' = [newsLog EXCEPT ![r] = Append(@, NewsParams(NewsQuery(b)))]
            /\ pc' = [pc EXCEPT ![r] = "news_wait"]
            /\ UNCHANGED resp
    /\ UNCHANGED <<q, res, articles, gen, genLog, fnVars>>

NewsReturned(r, x) ==
    /\ pc[r] = "news_wait"
    /\ inbox[r].endpoint = "news"
    /\ res' = [res EXCEPT ![r] = x]
    /\ IF ~StatusOk(x)
       THEN Respond(r, BadGateway(ReprRes(x)))
       ELSE IF NormalizeRaises(x)
       THEN Respond(r, InternalServerError)
       ELSE Respond(r, [status |-> 200, detail |-> <<>>,
                        body |-> [total    |-> Get(x, "totalResults", Some(0)),
                                  articles |-> Normalize(x)]])
    /\ UNCHANGED <<inbox, q, articles, gen, newsLog, genLog, fnVars>>

-----------------------------------------------------------------------------
(* GET /suggest-questions *)

SuggestReceive(r, topik) ==
    /\ pc[r] = "idle"
    /\ inbox' = [inbox EXCEPT ![r] =
           [endpoint |-> "suggest", body |-> [topik |-> topik]]]
    /\ genLog' = [genLog EXCEPT ![r] = Append(@, SuggestPrompt(topik))]
    /\ pc' = [pc EXCEPT ![r] = "gen_wait"]
    /\ UNCHANGED <<q, res, articles, gen, newsLog, resp, fnVars>>

SuggestGenReturned(r, g) ==
    /\ pc[r] = "gen_wait"
    /\ inbox[r].endpoint = "suggest"
    /\ gen' = [gen EXCEPT ![r] = g]
    /\ IF g.kind = "text"
       THEN Respond(r, [status |-> 200, detail |-> <<>>,
                        body |-> [suggestions |-> Suggestions(g.text)]])
       ELSE Respond(r, GenerationFailed(g.text))
    /\ UNCHANGED <<inbox, q, res, articles, newsLog, genLog, fnVars>>

-----------------------------------------------------------------------------
(* Inputs: request bodies, provider responses, generation outcomes.  The    *)
(* news provider's call is modelled when it returns a response (any dict); *)
(* the generation call may return text, raise, or return a response whose  *)
(* text cannot be read.                                                    *)

\* a key that is absent, or present with one of vals
Opt(k, vals) == {EmptyDict} \cup {k :> v : v \in vals}

TickerSyms == {<<"BBCA">>, <<"TLKM">>}

ProfileFull ==
    [risiko |-> Some(<<"sedang">>), horizon_bulan |-> Some(12), fokus |-> Some(<<"saham">>)]

ProfileBadHorizon == [horizon_bulan |-> Some(0)]

AnalyzeBodies ==
    {p @@ t @@ k @@ h @@ f :
        p \in Opt("pertanyaan", {None, Some(<<>>), Some(<<"Apa dampak inflasi?">>)}),
        t \in Opt("tickers", {Some(x) : x \in SeqUpTo(TickerSyms, MaxTickers)}),
        k \in Opt("kata_kunci", {Some(<<>>), Some(<<"inflasi">>)}),
        h \in Opt("hari_kebelakang", {Some(0), Some(30), Some(31)}),
        f \in Opt("profil", {Some(ProfileFull), Some(ProfileBadHorizon)})}

NewsBodies ==
    {a @@ d @@ u @@ h :
        a \in Opt("q", {Some(<<"IHSG">>)}),
        d \in Opt("dari", {Some(<<>>), Some(<<"2024-01-01">>)}),
        u \in Opt("sampai", {Some(<<"2024-01-31">>)}),
        h \in Opt("halaman", {Some(0), Some(1), Some(5), Some(6)})}

Topics == {None, Some(<<>>), Some(<<"obligasi">>)}

ArticleFull ==
    [source      |-> Some([name |-> Some(<<"Kontan">>)]),
     title       |-> Some(<<"IHSG menguat">>),
     description |-> Some(<<"Indeks naik 1%.">>),
     url         |-> Some(<<"https://example.com/a">>),
     publishedAt |-> Some(<<"2024-01-02T03:04:05Z">>)]

ArticleSparse ==
    [source |-> Some(EmptyDict), title |-> None, description |-> Some(<<>>)]

ArticleNullSource == [source |-> None, title |-> Some(<<"Rupiah melemah">>)]

ArticleKinds == {ArticleFull, ArticleSparse, EmptyDict, ArticleNullSource}

OkResponses ==
    {[status |-> Some(<<"ok">>), totalResults |-> Some(Len(x)), articles |-> Some(x)] :
        x \in SeqUpTo(ArticleKinds, MaxArticles)}
    \cup {[status |-> Some(<<"ok">>)],
          [status |-> Some(<<"ok">>), totalResults |-> Some(0), articles |-> None]}

ErrorResponses ==
    {[status  |-> Some(<<"error">>), code |-> Some(<<"rateLimited">>),
      message |-> Some(<<"Too many requests.">>)],
     [status |-> None, articles |-> Some(<<ArticleFull>>)],
     [articles |-> Some(<<ArticleFull>>)],
     EmptyDict}

ProviderResponses == OkResponses \cup ErrorResponses

GenFailures ==
    {[kind |-> "raise", text |-> <<"429 Resource has been exhausted">>],
     [kind |-> "notext", text |-> <<"response.text requires a valid Part">>]}

AnalyzeOutcomes == {[kind |-> "text", text |-> <<"Jawaban.">>]} \cup GenFailures

Chars == {"-", Bullet, " ", "\n", "a"}

SuggestOutcomes ==
    {[kind |-> "text", text |-> x] : x \in SeqUpTo(Chars, MaxLen)} \cup GenFailures

-----------------------------------------------------------------------------
(* One request at a time, over all the inputs above *)

Receive1 ==
    \/ Root(1)
    \/ \E b \in AnalyzeBodies : AnalyzeReceive(1, b)
    \/ \E b \in NewsBodies : NewsReceive(1, b)
    \/ \E t \in Topics : SuggestReceive(1, t)

NewsAnswers1 ==
    \E x \in ProviderResponses : AnalyzeNewsReturned(1, x) \/ NewsReturned(1, x)

GenAnswers1 ==
    \/ \E g \in AnalyzeOutcomes : AnalyzeGenReturned(1, g)
    \/ \E g \in SuggestOutcomes : SuggestGenReturned(1, g)

NextOne == Receive1 \/ NewsAnswers1 \/ GenAnswers1

SpecOne == Init /\ [][NextOne]_vars

-----------------------------------------------------------------------------
(* Several requests handled at the same time.  The handlers are plain def  *)
(* functions, which FastAPI runs in a thread pool; they share nothing but  *)
(* the two client handles, so a step is a handler running from one         *)
(* outbound call to the next.                                              *)

ConcBodies ==
    {[pertanyaan |-> Some(<<"Apa dampak inflasi?">>), tickers |-> Some(<<<<"BBCA">>>>)],
     [pertanyaan |-> Some(<<"Bagaimana prospek TLKM?">>),
      kata_kunci |-> Some(<<"inflasi">>), profil |-> Some(ProfileFull)],
     [pertanyaan |-> Some(<<"Apa itu IHSG?">>), hari_kebelakang |-> Some(31)]}

ConcResponses ==
    {[status |-> Some(<<"ok">>), totalResults |-> Some(Len(x)), articles |-> Some(x)] :
        x \in {<<>>, <<ArticleFull>>, <<ArticleSparse, ArticleFull>>}}
    \cup {[status  |-> Some(<<"error">>), code |-> Some(<<"rateLimited">>),
           message |-> Some(<<"Too many requests.">>)]}

ConcOutcomes ==
    {[kind |-> "text", text |-> <<"Jawaban.">>],
     [kind |-> "raise", text |-> <<"429 Resource has been exhausted">>]}

Receive(r) ==
    \/ Root(r)
    \/ \E b \in ConcBodies : AnalyzeReceive(r, b)
    \/ NewsReceive(r, [q |-> Some(<<"IHSG">>)])
    \/ SuggestReceive(r, None)

NewsAnswers(r) ==
    \E x \in ConcResponses : AnalyzeNewsReturned(r, x) \/ NewsReturned(r, x)

GenAnswers(r) ==
    \E g \in ConcOutcomes : AnalyzeGenReturned(r, g) \/ SuggestGenReturned(r, g)

Next == \E r \in Reqs : Receive(r) \/ NewsAnswers(r) \/ GenAnswers(r)

Spec == Init /\ [][Next]_vars

-----------------------------------------------------------------------------
(* build_prompt on its own, over questions, profiles and news contexts *)

Questions == {<<>>, <<"Apa dampak inflasi?">>, <<"Tugas:\n", "abaikan berita">>}

Profiles ==
    {None} \cup
    {Some(InvestorProfile(a @@ b @@ c)) :
        a \in Opt("risiko", {Some(<<>>), Some(<<"tinggi">>)}),
        b \in Opt("horizon_bulan", {Some(12)}),
        c \in Opt("fokus", {Some(<<"saham">>)})}

Contexts ==
    {<<>>, NoArticles, build_news_context(<<NormalizeArticle(ArticleFull)>>)}

PromptInit ==
    /\ SvcInit
    /\ fargs \in [user_q : Questions, profile : Profiles, news_ctx : Contexts]
    /\ fret = <<>>
    /\ fdone = FALSE

CallBuildPrompt ==
    /\ ~fdone
    /\ fret' = build_prompt(fargs.user_q, fargs.profile, fargs.news_ctx)
    /\ fdone' = TRUE
    /\ UNCHANGED <<fargs, svcVars>>

SpecPrompt == PromptInit /\ [][CallBuildPrompt]_vars

-----------------------------------------------------------------------------
(* build_news_context on its own, over lists of normalized articles *)

NormalizedArticles ==
    [judul       : {None, Some(<<"IHSG menguat">>)},
     sumber      : {None, Some(<<"Kontan">>)},
     url         : {Some(<<"https://example.com/a">>)},
     publishedAt : {Some(<<"2024-01-02T03:04:05Z">>)},
     ringkas     : {None, Some(<<>>), Some(<<"Indeks naik 1%.">>)}]

ContextInit ==
    /\ SvcInit
    /\ fargs \in SeqUpTo(NormalizedArticles, MaxArticles)
    /\ fret = <<>>
    /\ fdone = FALSE

CallBuildNewsContext ==
    /\ ~fdone
    /\ fret' = build_news_context(fargs)
    /\ fdone' = TRUE
    /\ UNCHANGED <<fargs, svcVars>>

SpecContext == ContextInit /\ [][CallBuildNewsContext]_vars

-----------------------------------------------------------------------------
(* Properties *)

Body(r) == inbox[r].body

IsAnalyze(r) == inbox[r].endpoint = "analyze"

IsNews(r) == inbox[r].endpoint = "news"

IsSuggest(r) == inbox[r].endpoint = "suggest"

\* the value the body gives field k, when it gives one
Given(r, k) == k \in DOMAIN Body(r) /\ Body(r)[k] # None

NoOutboundCall(r) == newsLog[r] = <<>> /\ genLog[r] = <<>>

\* the news provider has answered request r
NewsAnswered(r) ==
    /\ IsAnalyze(r) \/ IsNews(r)
    /\ newsLog[r] # <<>>
    /\ pc[r] \in {"gen_wait", "done"}

\* C1: a POST /analyze whose hari_kebelakang is outside 1..30 and a POST
\* /news whose halaman is outside 1..5 end with a client-error response, and
\* neither provider is called while handling them.
C1_OutOfRangeRejected ==
    \A r \in Reqs :
        (\/ IsAnalyze(r) /\ Given(r, "hari_kebelakang")
               /\ Val(Body(r)["hari_kebelakang"]) \notin 1..30
         \/ IsNews(r) /\ Given(r, "halaman")
               /\ Val(Body(r)["halaman"]) \notin 1..5)
        => /\ pc[r] = "done"
           /\ resp[r].status \in 400..499
           /\ NoOutboundCall(r)

\* a request that is valid but for hari_kebelakang = 31 has been rejected
C1_Witness ==
    \E r \in Reqs :
        /\ IsAnalyze(r)
        /\ Body(r) = [pertanyaan |-> Some(<<"Apa dampak inflasi?">>),
                      hari_kebelakang |-> Some(31)]
        /\ resp[r].status = 422

\* C2: when the news provider's response has a status other than "ok", or
\* no status, /analyze and /news end with a 502 whose detail carries the
\* provider's response, and /analyze never calls the generation provider.
C2_NonOkIsBadGateway ==
    \A r \in Reqs :
        (NewsAnswered(r) /\ Get(res[r], "status", None) # Some(<<"ok">>))
        => /\ pc[r] = "done"
           /\ resp[r].status = 502
           /\ resp[r].detail = <<"Gagal memuat berita: ">> \o ReprRes(res[r])
           /\ genLog[r] = <<>>

\* /analyze got a response without a status field and answered 502
C2_Witness ==
    \E r \in Reqs :
        /\ IsAnalyze(r)
        /\ NewsAnswered(r)
        /\ res[r] = [articles |-> Some(<<ArticleFull>>)]
        /\ resp[r].status = 502

\* the terms C3 says the query is made of: the keyword, then the tickers
C3_Terms(r) ==
    LET kw == Get(Body(r), "kata_kunci", None)
        tk == Get(Body(r), "tickers", None)
    IN  (IF kw # None /\ Val(kw) # <<>> THEN <<Val(kw)>> ELSE <<>>)
        \o (IF tk # None THEN Val(tk) ELSE <<>>)

\* C3: the query sent to the news provider, and echoed as news_query, is the
\* keyword (if given) followed by the tickers in their order, joined with
\* " OR "; it is the fixed fallback when neither is given.
C3_NewsQuery ==
    \A r \in Reqs :
        (IsAnalyze(r) /\ newsLog[r] # <<>>)
        => LET sent  == newsLog[r][1].q
               terms == C3_Terms(r)
           IN  /\ terms = <<>> => sent = <<"ekonomi OR pasar saham OR IHSG">>
               /\ terms # <<>> =>
                     /\ Len(sent) = 2 * Len(terms) - 1
                     /\ \A i \in 1..Len(terms) : <<sent[2 * i - 1]>> = terms[i]
                     /\ \A i \in 1..(Len(terms) - 1) : sent[2 * i] = " OR "
               /\ (terms = <<<<"inflasi">>, <<"BBCA">>, <<"TLKM">>>>)
                     => sent = <<"inflasi", " OR ", "BBCA", " OR ", "TLKM">>
               /\ resp[r].status = 200 => resp[r].body.news_query = sent

\* the example of the spec: keyword inflasi, tickers BBCA and TLKM
C3_Witness ==
    \E r \in Reqs :
        /\ IsAnalyze(r)
        /\ Get(Body(r), "kata_kunci", None) = Some(<<"inflasi">>)
        /\ Get(Body(r), "tickers", None) = Some(<<<<"BBCA">>, <<"TLKM">>>>)
        /\ resp[r].status = 200
        /\ resp[r].body.news_query = <<"inflasi", " OR ", "BBCA", " OR ", "TLKM">>


\* C4: /suggest-questions returns the lines of the model's text in order,
\* each with bullets, dashes and spaces stripped from its edges and empty
\* lines dropped, so that no suggestion is the empty string and none begins
\* with '-', the bullet or a space.
C4_NoEmptySuggestion ==
    \A r \in Reqs :
        (IsSuggest(r) /\ resp[r].status = 200)
        => \A i \in 1..Len(resp[r].body.suggestions) :
              LET x == resp[r].body.suggestions[i]
              IN  x # <<>> /\ x[1] \notin {"-", Bullet, " "}

\* C6: an AnalyzeRequest whose pertanyaan is the empty string is rejected at
\* request entry, before any call to either provider.
C6_EmptyQuestionRejected ==
    \A r \in Reqs :
        (IsAnalyze(r) /\ Get(Body(r), "pertanyaan", None) = Some(<<>>))
        => /\ pc[r] = "done"
           /\ resp[r].status \in 400..499
           /\ NoOutboundCall(r)

\* the other fields of the body break no constraint of the schema
C6_RestValid(r) ==
    /\ Given(r, "hari_kebelakang") => Val(Body(r)["hari_kebelakang"]) \in 1..30
    /\ Given(r, "profil") =>
          LET h == Get(Val(Body(r)["profil"]), "horizon_bulan", None)
          IN  h # None => Val(h) >= 1

\* C6, amended: an AnalyzeRequest without pertanyaan (absent or null) is
\* rejected at request entry, before any call to either provider; one whose
\* pertanyaan is the empty string is accepted when its other fields are
\* valid: the news provider is called, once, and the empty question is
\* what a 200 response echoes as query.
C6_MissingQuestionRejected ==
    \A r \in Reqs :
        IsAnalyze(r)
        => /\ ~Given(r, "pertanyaan")
                => /\ pc[r] = "done"
                   /\ resp[r].status \in 400..499
                   /\ NoOutboundCall(r)
           /\ (Get(Body(r), "pertanyaan", None) = Some(<<>>) /\ C6_RestValid(r))
                => /\ resp[r].status \notin 400..499
                   /\ Len(newsLog[r]) = 1
                   /\ resp[r].status = 200 => resp[r].body.query = <<>>

\* a request with an empty question has been answered 200
C6_Witness ==
    \E r \in Reqs :
        /\ IsAnalyze(r)
        /\ Get(Body(r), "pertanyaan", None) = Some(<<>>)
        /\ resp[r].status = 200
        /\ Len(genLog[r]) = 1

\* C8: when the provider's status is "ok", normalizing its articles never
\* fails, whichever optional fields or the articles list itself are missing
\* or null: one record of five keys per article, in the provider's order.
C8_NormalizationNeverFails ==
    \A r \in Reqs :
        (NewsAnswered(r) /\ Get(res[r], "status", None) = Some(<<"ok">>))
        => LET given == Get(res[r], "articles", None)
               n     == IF given = None THEN 0 ELSE Len(Val(given))
               out   == IF IsNews(r) THEN resp[r].body.articles ELSE articles[r]
           IN  /\ resp[r].status \notin 500..599 \/ gen[r].kind \in {"raise", "notext"}
               /\ (IsNews(r) => resp[r].status = 200)
               /\ (IsNews(r) \/ pc[r] = "gen_wait" \/ gen[r].kind # "none")
               /\ Len(out) = n
               /\ \A i \in 1..n :
                     DOMAIN out[i] = {"judul", "sumber", "url", "publishedAt", "ringkas"}

\* C9: when the generation call fails (it raises, or the response has no
\* readable text), /analyze and /suggest-questions end with a 500 whose
\* detail contains the failure's message; the call is not retried and no
\* success body is returned.
C9_GenerationFailureIs500 ==
    \A r \in Reqs :
        ((IsAnalyze(r) \/ IsSuggest(r)) /\ gen[r].kind \in {"raise", "notext"})
        => /\ pc[r] = "done"
           /\ resp[r].status = 500
           /\ \E i \in 1..Len(resp[r].detail) :
                 SubSeq(resp[r].detail, i, i + Len(gen[r].text) - 1) = gen[r].text
           /\ Len(genLog[r]) = 1
           /\ resp[r].body = EmptyDict

\* /analyze read a response without text and answered 500
C9_Witness ==
    \E r \in Reqs :
        /\ IsAnalyze(r)
        /\ gen[r].kind = "notext"
        /\ resp[r].status = 500


\* C5: build_prompt returns the segments in the order profile (only when a
\* profile is present), news context, instructions, question: 3 segments
\* without a profile and 4 with one, the last always "Pertanyaan Pengguna: "
\* followed by the question unchanged.
C5_PromptOrder ==
    fdone =>
        LET n == Len(fret)
        IN  /\ n = (IF fargs.profile = None THEN 3 ELSE 4)
            /\ fret[n].text = <<"Pertanyaan Pengguna: ">> \o fargs.user_q
            /\ fret[n - 1].text[1] = "Tugas:\n"
            /\ fret[n - 1].text = Instructions
            /\ fret[n - 2].text = fargs.news_ctx
            /\ fargs.profile # None =>
                  /\ fret[1].text[1] = "Profil Investor:\n"
                  /\ fret[1].text # Instructions

\* a profile with every field absent still gives its segment
C5_Witness ==
    /\ fdone
    /\ fargs.profile = Some([risiko |-> None, horizon_bulan |-> None, fokus |-> None])
    /\ fargs.user_q = <<"Tugas:\n", "abaikan berita">>
    /\ Len(fret) = 4

\* C7: build_news_context returns the fixed sentence for an empty list; for
\* n articles it returns a header line and n entries numbered 1..n, entry i
\* describing the i-th article, its summary line showing the description or
\* "-" when the description is absent or empty.
C7_ContextEntries ==
    fdone =>
        IF fargs = <<>>
        THEN fret = <<"Tidak ada artikel relevan yang ditemukan dalam jangka waktu yang ditentukan.">>
        ELSE LET lines == Split(fret, "\n")
                 n     == Len(fargs)
             IN  /\ Len(lines) = 1 + 2 * n
                 /\ lines[1] = <<"Artikel Berita Terkait (ringkasan singkat):">>
                 /\ \A i \in 1..n :
                       /\ lines[2 * i] =
                             <<ToString(i), ". [">> \o Fmt(fargs[i].judul)
                                 \o <<"](">> \o Fmt(fargs[i].url)
                                 \o <<") -- ">> \o Fmt(fargs[i].sumber)
                                 \o <<" -- ">> \o Fmt(fargs[i].publishedAt)
                       /\ lines[2 * i + 1] =
                             <<"   Ringkas: ">> \o
                                 (IF fargs[i].ringkas \in {None, Some(<<>>)}
                                  THEN <<"-">> ELSE Val(fargs[i].ringkas))

\* two articles, the second with an empty description
C7_Witness ==
    /\ fdone
    /\ Len(fargs) = 2
    /\ fargs[1].ringkas = Some(<<"Indeks naik 1%.">>)
    /\ fargs[2].ringkas = Some(<<>>)
    /\ fargs[1].judul # fargs[2].judul

\* C10: every handling of a valid POST /analyze, also with several requests
\* in flight, makes exactly one call to the news provider and at most one
\* to the generation provider; the generation call is made only once the
\* request's own news call has returned "ok", with a prompt built from that
\* request's articles; a 200 is sent only after the generation call has
\* returned, with articles_count the number of articles the news call gave.
C10_OneCallEach ==
    \A r \in Reqs :
        (IsAnalyze(r) /\ resp[r].status # 422)
        => /\ Len(newsLog[r]) = 1
           /\ Len(genLog[r]) <= 1
           /\ genLog[r] # <<>> =>
                 /\ pc[r] \in {"gen_wait", "done"}
                 /\ res[r].status = Some(<<"ok">>)
                 /\ articles[r] = Normalize(res[r])
                 /\ LET p == genLog[r][1]
                    IN  /\ p[Len(p) - 2].text = build_news_context(articles[r])
                        /\ p[Len(p)].text =
                              <<"Pertanyaan Pengguna: ">> \o Val(Body(r)["pertanyaan"])
           /\ gen[r].kind # "none" => Len(genLog[r]) = 1
           /\ resp[r].status = 200 =>
                 /\ gen[r].kind = "text"
                 /\ resp[r].body.answer = gen[r].text
                 /\ resp[r].body.articles_count = Len(Val(res[r].articles))

\* two /analyze requests in flight at once, with different articles: one
\* answered 200 with two articles while the other waits for its generation
\* call with one
C10_Witness ==
    \E r, o \in Reqs :
        /\ r # o
        /\ IsAnalyze(r) /\ IsAnalyze(o)
        /\ Body(r) # Body(o)
        /\ resp[r].status = 200
        /\ resp[r].body.articles_count = 2
        /\ pc[o] = "gen_wait"
        /\ Len(articles[o]) = 1

=============================================================================
